---- MODULE Spec2Model ----
(***************************************************************************)
(* Model of the cluster connection pool of influx-rs: the available and    *)
(* disabled instance lists, the round-robin pointer, the failover timer    *)
(* threads spawned by disable_host, and the request status handles.        *)
(*                                                                         *)
(* Threads.  The methods of Cluster take &mut self, so one caller runs     *)
(* them one at a time; the failover threads hold clones of the two Arcs    *)
(* and run concurrently with it.  Every lock().unwrap() critical section   *)
(* is one step; disable_host and enable_host take two locks one after the  *)
(* other and are therefore two steps each, as is the timer thread.         *)
(*                                                                         *)
(* Panics.  Vec::remove and Vec indexing panic when the index is out of    *)
(* bounds, Option::expect panics on None.  A panic unwinds the caller,     *)
(* which never runs again, and poisons every Mutex whose guard was alive;  *)
(* lock().unwrap() on a poisoned Mutex panics in turn.                     *)
(*                                                                         *)
(* Urls.  SpecUrl has the query list of a caller and the Urls that the     *)
(* build_url of client.rs and the request of transport.rs make from it.    *)
(*                                                                         *)
(* Locks.  SpecLocks has the four Mutexes one lock() and one drop of a     *)
(* guard at a time, for the caller's methods and the failover threads.     *)
(***************************************************************************)
EXTENDS Naturals, Sequences, FiniteSets, Bags, TLC

\* ---------------------------------------------------------------- bounds
\* most instances the caller hands to Cluster::new and add_host in one run
MaxAdded == 2
\* cap on list entries plus live failover threads (guards add / disable)
MaxPool == 4
\* most requests submitted in one run
MaxRequests == 1
\* most parameters in the query list the caller supplies
MaxParams == 2
\* most Urls built in one run
MaxBuilds == 2
\* most failover threads alive at once in the lock-level specification
MaxTimerThreads == 2

\* ------------------------------------------------------------- constants
Http == "http"
Https == "https"
Scheme == {Http, Https}

DefaultInstance == [scheme |-> Http, host |-> "127.0.0.1", port |-> 8086]

\* the Instance values the caller may use: structural equality on
\* (scheme, host, port)
Instances ==
    { DefaultInstance,
      [scheme |-> Https, host |-> "127.0.0.1", port |-> 8086] }

\* Duration values given to set_failover_timeout (seconds); 60 is the default
DefaultFailoverTimeout == 60
Timeouts == {DefaultFailoverTimeout, 5}

\* what the HTTP transport would answer for a request once it is sent
NetOutcomes == {"ok", "http_error", "transport_failure"}

\* Option<Instance> and the outcome of a call that panicked
None == [kind |-> "None"]
Some(instance) == [kind |-> "Some", value |-> instance]
PanicWith(msg) == [kind |-> "Panic", msg |-> msg]
\* Vec indexing and Vec::remove past the end
Panic == PanicWith("index out of bounds")
\* Option::expect on None in request
PanicNoHosts == PanicWith("No hosts left")
Pending == "Pending"
Complete == "Complete"
Failed == "Failed"

\* the username and password given to Cluster::new
Username == "root"
Password == "secret"

\* the (name, value) pairs a caller may put in a query, and the paths
QueryParams == { << "q", "select" >>, << "db", "mydb" >> }
Paths == { << "query" >>, << "db", "mydb", "series" >> }

\* the query lists the caller may supply: Vec<(String, String)>
ParamLists == UNION { [1..n -> QueryParams] : n \in 0..MaxParams }

\* the four Mutexes of Cluster
Mutexes == {"available", "disabled", "pointer", "failover_timeout"}

\* the threads: the caller and the failover threads
Caller == 0
TimerThreads == 1..MaxTimerThreads
Threads == {Caller} \cup TimerThreads

VARIABLES
    instances_available,          \* Vec<Instance> behind Arc<Mutex<..>>
    instances_disabled,           \* Vec<Instance> behind Arc<Mutex<..>>
    instances_available_pointer,  \* Mutex<usize>
    failover_timeout,             \* Arc<Mutex<Duration>>
    poisoned,                     \* the Mutexes poisoned by a panic
    timers,                       \* bag of live failover threads
    caller,                       \* the caller's position
    ret,                          \* what the caller's last call did
    requests,                     \* the status handles handed out, in order
    added,                        \* history: how often each instance was added
    demoted,                      \* history: the instances demoted so far
    selLog,                       \* history: results of consecutive selects
    query,                        \* the caller's Vec<(String, String)>
    supplied,                     \* history: the parameters the caller put in
    urls,                         \* the Urls built so far, in order
    held,                         \* who holds the guard of each Mutex
    running                       \* the lock steps each thread has left

\* the pool and its requests
poolVars == << instances_available, instances_disabled,
               instances_available_pointer, failover_timeout, poisoned,
               timers, caller, ret, requests, added, demoted, selLog >>

\* the caller's query list and the Urls built from it
urlVars == << query, supplied, urls >>

\* the Mutex guards
lockVars == << held, running >>

vars == << instances_available, instances_disabled,
           instances_available_pointer, failover_timeout, poisoned, timers,
           caller, ret, requests, added, demoted, selLog, query, supplied,
           urls, held, running >>

\* --------------------------------------------------------------- helpers
Range(s) == { s[k] : k \in 1..Len(s) }

Count(i, s) == Cardinality({ k \in 1..Len(s) : s[k] = i })

\* a remove that takes the element after pos, and nothing at the last index
RemoveAtOffByOne(s, pos) ==
    SubSeq(s, 1, pos + 1) \o SubSeq(s, pos + 3, Len(s))

\* Vec::remove(pos), pos a 0-based index < len
RemoveAt(s, pos) == SubSeq(s, 1, pos) \o SubSeq(s, pos + 2, Len(s))

\* a retain that stops at the first match and drops the rest of the list
RECURSIVE RetainDropsTail(_, _)
RetainDropsTail(s, instance) ==
    IF s = << >> THEN << >>
    ELSE IF Head(s) # instance
         THEN << Head(s) >> \o RetainDropsTail(Tail(s), instance)
         ELSE << >>

\* Vec::retain(|x| *x != instance)
RECURSIVE Retain(_, _)
Retain(s, instance) ==
    IF s = << >> THEN << >>
    ELSE IF Head(s) # instance
         THEN << Head(s) >> \o Retain(Tail(s), instance)
         ELSE Retain(Tail(s), instance)

remove_instance_by_attrs(instances, instance) == Retain(instances, instance)

\* list entries plus live failover threads plus the entry the caller holds
PoolLoad ==
    Len(instances_available) + Len(instances_disabled)
    + BagCardinality(timers)
    + (IF caller.pc \in {"disable_push", "enable_push"} THEN 1 ELSE 0)

TotalAdded ==
    LET RECURSIVE Sum(_)
        Sum(S) == IF S = {} THEN 0
                  ELSE LET i == CHOOSE x \in S : TRUE
                       IN added[i] + Sum(S \ {i})
    IN Sum(Instances)

Idle == [pc |-> "idle", host |-> None]
Panicked == [pc |-> "panicked", host |-> None]

NoCall == [op |-> "new", val |-> None]

Timer(host, pc, timeout) == [host |-> host, pc |-> pc, timeout |-> timeout]

\* ------------------------------------------------------------------ Init
\* Cluster::new(scheme, host, port, ..): one available instance, the rest
\* from Default
InitPool ==
    /\ \E i \in Instances :
          /\ instances_available = << i >>
          /\ added = [x \in Instances |-> IF x = i THEN 1 ELSE 0]
    /\ instances_disabled = << >>
    /\ instances_available_pointer = 0
    /\ failover_timeout = DefaultFailoverTimeout
    /\ poisoned = {}
    /\ timers = EmptyBag
    /\ caller = Idle
    /\ ret = NoCall
    /\ requests = << >>
    /\ demoted = {}
    /\ selLog = << >>

\* no query list yet, no Url built
InitNoUrl ==
    /\ query = << >>
    /\ supplied = << >>
    /\ urls = << >>

\* Mutex::new: no guard is out, no thread is inside a call
InitLocks ==
    /\ held = [m \in Mutexes |-> {}]
    /\ running = [t \in Threads |-> << >>]

Init == InitPool /\ InitNoUrl /\ InitLocks

\* --------------------------------------------------------- caller: config
set_failover_timeout(value) ==
    /\ caller.pc = "idle"
    /\ value # failover_timeout
    /\ failover_timeout' = value
    /\ ret' = [op |-> "set_failover_timeout", val |-> None]
    /\ UNCHANGED << instances_available, instances_disabled,
                    instances_available_pointer, poisoned, timers, caller,
                    requests, added, selLog, demoted >>
    /\ UNCHANGED << urlVars, lockVars >>

SetFailoverTimeout == \E value \in Timeouts : set_failover_timeout(value)

\* ----------------------------------------------------------- caller: add
add_host(new_host) ==
    /\ caller.pc = "idle"
    /\ TotalAdded < MaxAdded
    /\ PoolLoad < MaxPool
    /\ instances_available' = Append(instances_available, new_host)
    /\ added' = [added EXCEPT ![new_host] = @ + 1]
    /\ ret' = [op |-> "add_host", val |-> None]
    /\ selLog' = << >>
    /\ UNCHANGED << instances_disabled, instances_available_pointer,
                    failover_timeout, poisoned, timers, caller, requests,
                    demoted >>
    /\ UNCHANGED << urlVars, lockVars >>

AddHost == \E new_host \in Instances : add_host(new_host)

\* the caller keeps to the contract of add: no instance is added twice
AddFreshHost ==
    \E new_host \in Instances : added[new_host] = 0 /\ add_host(new_host)

\* -------------------------------------------------------- caller: select
\* the reset with its comparison turned round
ResetPointerInverted(len, pointer) == IF pointer < len THEN 0 ELSE pointer

\* the pointer get_host reads at, after the reset of lines 214-216
ResetPointer(len, pointer) == IF pointer > len THEN 0 ELSE pointer

\* the outcome of get_host on a list and a pointer:
\* val is None, Panic (index out of bounds) or Some(instance)
get_host_result(available, pointer) ==
    IF available = << >>
    THEN [val |-> None, pointer |-> pointer]
    ELSE LET p == ResetPointer(Len(available), pointer)
         IN IF p >= Len(available)
            THEN [val |-> Panic, pointer |-> p]
            ELSE [val |-> Some(available[p + 1]), pointer |-> p + 1]

\* the select log: results of the consecutive get_host calls made since the
\* pointer was last 0 with no change of instances_available in between
LogSelect(pointerRead, val) ==
    IF selLog = << >> /\ pointerRead # 0 THEN << >> ELSE Append(selLog, val)

GetHost ==
    /\ caller.pc = "idle"
    /\ LET r == get_host_result(instances_available,
                                instances_available_pointer)
       IN /\ instances_available_pointer' = r.pointer
          /\ ret' = [op |-> "get_host", val |-> r.val]
          /\ IF r.val = Panic
             THEN /\ caller' = Panicked
                  /\ poisoned' = poisoned \cup {"available", "pointer"}
                  /\ selLog' = LogSelect(r.pointer, Panic)
             ELSE /\ UNCHANGED << caller, poisoned >>
                  /\ selLog' = IF r.val = None THEN selLog
                               ELSE LogSelect(r.pointer - 1, r.val)
    /\ UNCHANGED << instances_available, instances_disabled,
                    failover_timeout, timers, requests, added, demoted >>
    /\ UNCHANGED << urlVars, lockVars >>

\* ------------------------------------------------------- caller: demote
\* disable_host(pos), first statement: Vec::remove(pos) on the available
\* list; out of bounds it panics with the guard alive
DisableHostRemove(pos) ==
    /\ caller.pc = "idle"
    /\ PoolLoad < MaxPool
    /\ IF pos < Len(instances_available)
       THEN /\ instances_available' = RemoveAt(instances_available, pos)
            /\ caller' = [pc |-> "disable_push",
                          host |-> instances_available[pos + 1]]
            /\ ret' = [op |-> "disable_host",
                       val |-> Some(instances_available[pos + 1])]
            /\ UNCHANGED poisoned
       ELSE /\ caller' = Panicked
            /\ poisoned' = poisoned \cup {"available"}
            /\ ret' = [op |-> "disable_host", val |-> Panic]
            /\ UNCHANGED instances_available
    /\ selLog' = << >>
    /\ demoted' = IF pos < Len(instances_available)
                  THEN demoted \cup {instances_available[pos + 1]}
                  ELSE demoted
    /\ UNCHANGED << instances_disabled, instances_available_pointer,
                    failover_timeout, timers, requests, added >>
    /\ UNCHANGED << urlVars, lockVars >>

\* a disable_host whose thread sleeps for the default, not the configured,
\* failover timeout
DisableHostPushDefaultTimeout ==
    /\ caller.pc = "disable_push"
    /\ instances_disabled' = Append(instances_disabled, caller.host)
    /\ timers' = timers (+) SetToBag({Timer(caller.host, "sleep",
                                            DefaultFailoverTimeout)})
    /\ caller' = Idle
    /\ UNCHANGED << instances_available, instances_available_pointer,
                    failover_timeout, poisoned, ret, requests, added,
                    selLog, demoted >>
    /\ UNCHANGED << urlVars, lockVars >>

\* disable_host, the rest: push onto the disabled list, read the failover
\* timeout, spawn the thread that re-enables the host
DisableHostPush ==
    /\ caller.pc = "disable_push"
    /\ instances_disabled' = Append(instances_disabled, caller.host)
    /\ timers' = timers (+) SetToBag({Timer(caller.host, "sleep",
                                            failover_timeout)})
    /\ caller' = Idle
    /\ UNCHANGED << instances_available, instances_available_pointer,
                    failover_timeout, poisoned, ret, requests, added,
                    selLog, demoted >>
    /\ UNCHANGED << urlVars, lockVars >>

\* the positions a caller may pass: every index of the list and the first
\* one past its end
DisableHost ==
    \/ \E pos \in 0..Len(instances_available) : DisableHostRemove(pos)
    \/ DisableHostPush

\* ------------------------------------------------------ caller: promote
\* enable_host(pos), first statement: Vec::remove(pos) on the disabled list
EnableHostRemove(pos) ==
    /\ caller.pc = "idle"
    /\ IF pos < Len(instances_disabled)
       THEN /\ instances_disabled' = RemoveAt(instances_disabled, pos)
            /\ caller' = [pc |-> "enable_push",
                          host |-> instances_disabled[pos + 1]]
            /\ ret' = [op |-> "enable_host",
                       val |-> Some(instances_disabled[pos + 1])]
            /\ UNCHANGED poisoned
       ELSE /\ caller' = Panicked
            /\ poisoned' = poisoned \cup {"disabled"}
            /\ ret' = [op |-> "enable_host", val |-> Panic]
            /\ UNCHANGED instances_disabled
    /\ UNCHANGED << instances_available, instances_available_pointer,
                    failover_timeout, timers, requests, added, selLog,
                    demoted >>
    /\ UNCHANGED << urlVars, lockVars >>

\* enable_host, second statement: push onto the available list
EnableHostPush ==
    /\ caller.pc = "enable_push"
    /\ instances_available' = Append(instances_available, caller.host)
    /\ caller' = Idle
    /\ selLog' = << >>
    /\ UNCHANGED << instances_disabled, instances_available_pointer,
                    failover_timeout, poisoned, timers, ret, requests,
                    added, demoted >>
    /\ UNCHANGED << urlVars, lockVars >>

EnableHost ==
    \/ \E pos \in 0..Len(instances_disabled) : EnableHostRemove(pos)
    \/ EnableHostPush

\* ------------------------------------------------------ failover threads
\* the thread of disable_host after its sleep: remove_instance_by_attrs on
\* the disabled list; the thread dies at lock().unwrap() if the Mutex is
\* poisoned
TimerRemove(t) ==
    /\ t.pc = "sleep"
    /\ IF "disabled" \in poisoned
       THEN /\ timers' = timers (-) SetToBag({t})
            /\ UNCHANGED instances_disabled
       ELSE /\ instances_disabled' =
                   remove_instance_by_attrs(instances_disabled, t.host)
            /\ timers' = (timers (-) SetToBag({t}))
                         (+) SetToBag({Timer(t.host, "push", t.timeout)})
    /\ UNCHANGED << instances_available, instances_available_pointer,
                    failover_timeout, poisoned, caller, ret, requests, added,
                    selLog, demoted >>
    /\ UNCHANGED << urlVars, lockVars >>

\* the thread's last statement: push the host onto the available list
TimerPush(t) ==
    /\ t.pc = "push"
    /\ timers' = timers (-) SetToBag({t})
    /\ IF "available" \in poisoned
       THEN UNCHANGED << instances_available, selLog >>
       ELSE /\ instances_available' = Append(instances_available, t.host)
            /\ selLog' = << >>
    /\ UNCHANGED << instances_disabled, instances_available_pointer,
                    failover_timeout, poisoned, caller, ret, requests,
                    added, demoted >>
    /\ UNCHANGED << urlVars, lockVars >>

FailoverThread ==
    \E t \in BagToSet(timers) : TimerRemove(t) \/ TimerPush(t)

\* -------------------------------------------------------------- requests
\* RequestStatus::new(): the handle starts out pending
NewRequestStatus == Pending

\* request(method, path, query): get_instance().expect("No hosts left"),
\* then the url, the hyper request builder, the handle and the spawned
\* thread.  net is what the transport would answer for this request.
Request(net) ==
    /\ caller.pc = "idle"
    /\ Len(requests) < MaxRequests
    /\ LET r == get_host_result(instances_available,
                                instances_available_pointer)
       IN /\ instances_available_pointer' = r.pointer
          /\ IF r.val = Panic
             THEN /\ caller' = Panicked
                  /\ poisoned' = poisoned \cup {"available", "pointer"}
                  /\ ret' = [op |-> "request", val |-> Panic]
                  /\ selLog' = LogSelect(r.pointer, Panic)
                  /\ UNCHANGED requests
             ELSE IF r.val = None
             THEN /\ caller' = Panicked
                  /\ ret' = [op |-> "request", val |-> PanicNoHosts]
                  /\ UNCHANGED << poisoned, requests, selLog >>
             ELSE /\ requests' = Append(requests,
                        [instance |-> r.val.value, net |-> net,
                         status |-> NewRequestStatus, thread |-> "spawned"])
                  /\ ret' = [op |-> "request", val |-> Some(Len(requests) + 1)]
                  /\ selLog' = LogSelect(r.pointer - 1, r.val)
                  /\ UNCHANGED << caller, poisoned >>
    /\ UNCHANGED << instances_available, instances_disabled,
                    failover_timeout, timers, added, demoted >>
    /\ UNCHANGED << urlVars, lockVars >>

SubmitRequest == \E net \in NetOutcomes : Request(net)

\* the thread spawned by request: its closure is empty, it ends at once
RequestThread(h) ==
    /\ requests[h].thread = "spawned"
    /\ requests' = [requests EXCEPT ![h].thread = "done"]
    /\ UNCHANGED << instances_available, instances_disabled,
                    instances_available_pointer, failover_timeout, poisoned,
                    timers, caller, ret, added, selLog, demoted >>
    /\ UNCHANGED << urlVars, lockVars >>

RequestThreads == \E h \in 1..Len(requests) : RequestThread(h)

\* ------------------------------------------------------------------ urls
\* format!("{}", instance.scheme)
SchemeString(scheme) ==
    CASE scheme = Http -> "http"
      [] scheme = Https -> "https"

\* url::form_urlencoded::serialize_owned: name=value pairs joined by "&"
RECURSIVE serialize_owned(_)
serialize_owned(pairs) ==
    IF pairs = << >> THEN ""
    ELSE IF Len(pairs) = 1
         THEN pairs[1][1] \o "=" \o pairs[1][2]
         ELSE pairs[1][1] \o "=" \o pairs[1][2] \o "&"
              \o serialize_owned(Tail(pairs))

\* the two pushes: ("u", username), then ("p", password)
PushCredentials(vec) ==
    Append(Append(vec, << "u", Username >>), << "p", Password >>)

\* the Url literal of build_url
Url(instance, path, pairs) ==
    [scheme |-> SchemeString(instance.scheme),
     username |-> "",
     password |-> None,
     host |-> instance.host,
     port |-> Some(instance.port),
     default_port |-> Some(instance.port),
     path |-> path,
     query |-> Some(serialize_owned(pairs)),
     fragment |-> None]

\* client.rs build_url(instance, path, query: &mut Vec): the credentials
\* are pushed onto the caller's list, the Url is made from that list
ClusterBuildUrl(instance, path) ==
    /\ Len(urls) < MaxBuilds
    /\ query' = PushCredentials(query)
    /\ urls' = Append(urls, Url(instance, path, query'))
    /\ UNCHANGED << supplied, poolVars, lockVars >>

\* transport.rs request: the caller's list is cloned, the credentials are
\* pushed onto the clone, build_url makes the Url from the clone
TransportBuildUrl(instance, path) ==
    /\ Len(urls) < MaxBuilds
    /\ LET vec == query
       IN urls' = Append(urls, Url(instance, path, PushCredentials(vec)))
    /\ UNCHANGED << query, supplied, poolVars, lockVars >>

BuildUrlCluster ==
    \E instance \in Range(instances_available), path \in Paths :
        ClusterBuildUrl(instance, path)

BuildUrlTransport ==
    \E instance \in Range(instances_available), path \in Paths :
        TransportBuildUrl(instance, path)

\* ----------------------------------------------------------------- locks
Lock(m) == [op |-> "lock", mutex |-> m]
Unlock(m) == [op |-> "unlock", mutex |-> m]
\* Thread::spawn in disable_host
SpawnThread == [op |-> "spawn", mutex |-> "none"]
\* the caller after a panic: it never calls again
Dead == [op |-> "dead", mutex |-> "none"]

\* a guard made inside one statement is dropped at the end of the statement
Statement(m) == << Lock(m), Unlock(m) >>

\* a get_host that locks the available list again with its guard alive
get_host_relocks ==
    << Lock("available"), Lock("pointer"), Lock("available"),
       Unlock("available"), Unlock("pointer"), Unlock("available") >>

\* get_host: both guards are locals, dropped in reverse order at the end
get_host_locks ==
    << Lock("available"), Lock("pointer"),
       Unlock("pointer"), Unlock("available") >>

\* the Mutex steps of each method of Cluster, in program order
LockSteps ==
    [set_failover_timeout |-> Statement("failover_timeout"),
     get_instances_available |-> Statement("available"),
     get_instances_disabled |-> Statement("disabled"),
     add_host |-> Statement("available"),
     get_host |-> get_host_locks,
     enable_host |-> Statement("disabled") \o Statement("available"),
     disable_host |-> Statement("available") \o Statement("disabled")
                      \o Statement("failover_timeout") \o << SpawnThread >>]

\* the failover thread: remove_instance_by_attrs on the disabled list, whose
\* guard is dropped at its return, then the push onto the available list
failover_thread_locks == Statement("disabled") \o Statement("available")

IdleTimerThreads == { t \in TimerThreads : running[t] = << >> }

\* the caller enters a method of Cluster
Call(op) ==
    /\ running[Caller] = << >>
    /\ op = "disable_host" => IdleTimerThreads # {}
    /\ running' = [running EXCEPT ![Caller] = LockSteps[op]]
    /\ UNCHANGED << held, poolVars, urlVars >>

\* lock(): the thread gets the guard when no other guard is out
Acquire(t) ==
    /\ running[t] # << >>
    /\ Head(running[t]).op = "lock"
    /\ held[Head(running[t]).mutex] = {}
    /\ held' = [held EXCEPT ![Head(running[t]).mutex] = {t}]
    /\ running' = [running EXCEPT ![t] = Tail(@)]
    /\ UNCHANGED << poolVars, urlVars >>

\* the guard is dropped
Release(t) ==
    /\ running[t] # << >>
    /\ Head(running[t]).op = "unlock"
    /\ held' = [held EXCEPT ![Head(running[t]).mutex] = @ \ {t}]
    /\ running' = [running EXCEPT ![t] = Tail(@)]
    /\ UNCHANGED << poolVars, urlVars >>

\* Thread::spawn at the end of disable_host
Spawn ==
    /\ running[Caller] # << >>
    /\ Head(running[Caller]) = SpawnThread
    /\ \E t \in IdleTimerThreads :
          running' = [running EXCEPT ![Caller] = Tail(@),
                                     ![t] = failover_thread_locks]
    /\ UNCHANGED << held, poolVars, urlVars >>

\* a panic with guards alive (Vec::remove or an index out of bounds, unwrap
\* on a poisoned Mutex): unwinding drops the guards and ends the thread
Unwind(t) ==
    /\ \E m \in Mutexes : t \in held[m]
    /\ held' = [m \in Mutexes |-> held[m] \ {t}]
    /\ running' = [running EXCEPT
                      ![t] = IF t = Caller THEN << Dead >> ELSE << >>]
    /\ UNCHANGED << poolVars, urlVars >>

CallerCalls == \E op \in DOMAIN LockSteps : Call(op)
ThreadLocks == \E t \in Threads : Acquire(t)
ThreadUnlocks == \E t \in Threads : Release(t)
ThreadPanics == \E t \in Threads : Unwind(t)

\* ------------------------------------------------------------- the specs
\* every operation, with any argument the code accepts
Next ==
    \/ SetFailoverTimeout
    \/ AddHost
    \/ GetHost
    \/ DisableHost
    \/ EnableHost
    \/ FailoverThread
    \/ SubmitRequest
    \/ RequestThreads

Spec == Init /\ [][Next]_vars

\* the caller never adds an instance twice
NextFresh ==
    \/ SetFailoverTimeout
    \/ AddFreshHost
    \/ GetHost
    \/ DisableHost
    \/ EnableHost
    \/ FailoverThread
    \/ SubmitRequest
    \/ RequestThreads

SpecFresh == Init /\ [][NextFresh]_vars

\* instances come back through their failover threads alone: the caller
\* never calls enable_host
NextNoManual ==
    \/ SetFailoverTimeout
    \/ AddHost
    \/ GetHost
    \/ DisableHost
    \/ FailoverThread
    \/ SubmitRequest
    \/ RequestThreads

SpecNoManual == Init /\ [][NextNoManual]_vars

\* the operations that change the pool, without selects and requests
NextPool ==
    \/ SetFailoverTimeout
    \/ AddHost
    \/ DisableHost
    \/ EnableHost
    \/ FailoverThread

SpecPool == Init /\ [][NextPool]_vars

\* the pool and the dispatcher: every select is the select of a request
NextDispatch ==
    \/ SetFailoverTimeout
    \/ AddHost
    \/ DisableHost
    \/ EnableHost
    \/ FailoverThread
    \/ SubmitRequest
    \/ RequestThreads

SpecDispatch == Init /\ [][NextDispatch]_vars

\* the caller comes with a query list and has Urls built from it, by
\* either build_url
InitUrl ==
    /\ InitPool
    /\ query \in ParamLists
    /\ supplied = query
    /\ urls = << >>
    /\ InitLocks

NextUrl ==
    \/ BuildUrlCluster
    \/ BuildUrlTransport

SpecUrl == InitUrl /\ [][NextUrl]_vars

\* the Mutex steps of the caller and the failover threads
NextLocks ==
    \/ CallerCalls
    \/ ThreadLocks
    \/ ThreadUnlocks
    \/ Spawn
    \/ ThreadPanics

SpecLocks == Init /\ [][NextLocks]_vars

\* ================================================================ claims
InAvailable(i) == i \in Range(instances_available)
InDisabled(i) == i \in Range(instances_disabled)

\* the live failover threads of instance i, and those still asleep
TimersOf(i) == { t \in BagToSet(timers) : t.host = i }
Sleeping(i) == { t \in TimersOf(i) : t.pc = "sleep" }

\* C1: no instance is in instances_available and in instances_disabled at
\* the same time
C1_NeverInBoth ==
    \A i \in Instances : ~(InAvailable(i) /\ InDisabled(i))

\* C2: consecutive selects from pointer 0 on an unchanged list of N
\* instances return the instances in list order, and wrap to the first
\* instance on call N+1 (and so on round the list)
C2_RoundRobinWraps ==
    \A k \in 1..Len(selLog) :
        selLog[k] = Some(instances_available[
                            ((k - 1) % Len(instances_available)) + 1])

\* C3: a select never indexes instances_available out of bounds, and on
\* an empty list get_host returns None
C3_SelectInBounds ==
    [][GetHost => /\ ret'.val # Panic
                  /\ instances_available = << >> => ret'.val = None]_vars

\* C4: an instance that was demoted is back in instances_available and out
\* of instances_disabled once the failover threads armed for it have run
C4_DemotedComesBack ==
    \A i \in demoted :
        (TimersOf(i) = {} /\ caller.pc # "disable_push")
            => (InAvailable(i) /\ ~InDisabled(i))

\* the instance the caller's last call selected, if it selected one
LastSelected ==
    IF ret.op = "get_host" /\ ret.val.kind = "Some"
    THEN {ret.val.value}
    ELSE IF ret.op = "request" /\ ret.val.kind = "Some"
         THEN {requests[ret.val.value].instance}
         ELSE {}

\* C5 as stated: a select never returns an instance whose failover thread
\* is still asleep
C5_NotOfferedDuringCooldown ==
    \A i \in LastSelected : Sleeping(i) = {}

\* C5 amended: the same for every instance the caller has added once only
C5_NotOfferedDuringCooldownUnlessReadded ==
    \A i \in LastSelected : added[i] <= 1 => Sleeping(i) = {}

\* an instance is cooling down and a select has just returned another one
C5_Witness ==
    /\ LastSelected # {}
    /\ \E i \in Instances : added[i] = 1 /\ Sleeping(i) # {}

\* C6: request on an empty instances_available does not panic and returns
\* a handle that is Failed, without a network attempt
C6_EmptyPoolFailsHandle ==
    [][(SubmitRequest /\ instances_available = << >>)
          => /\ caller'.pc # "panicked"
             /\ Len(requests') = Len(requests) + 1
             /\ requests'[Len(requests')].status = Failed]_vars

\* C7: disable_host with a position that is not in instances_available
\* does not panic, changes neither list and arms no failover thread
C7_DemoteAbsentIsNoOp ==
    [][(\E pos \in 0..Len(instances_available) :
            pos >= Len(instances_available) /\ DisableHostRemove(pos))
          => /\ caller'.pc = "idle"
             /\ UNCHANGED << instances_available, instances_disabled,
                             timers >>]_vars

\* C8: a promotion that does not find the instance in instances_disabled
\* changes nothing: a second failover thread of an instance adds no second
\* copy of it to instances_available
C8_SecondPromoteAddsNothing ==
    \A i \in Instances : Count(i, instances_available) <= added[i]

\* C9: a handle starts Pending and has reached Complete or Failed, once
\* and for good, when the thread spawned for its request has run
C9_HandleResolvesOnce ==
    [][\A h \in 1..Len(requests') :
          IF h > Len(requests)
          THEN requests'[h].status = Pending
          ELSE /\ requests[h].status # Pending
                     => requests'[h].status = requests[h].status
               /\ (requests[h].thread = "spawned"
                   /\ requests'[h].thread = "done")
                     => requests'[h].status \in {Complete, Failed}]_vars

\* C10: when the call of a request failed at transport level, the instance
\* selected for it has been demoted and the handle is Failed
C10_TransportFailureDemotes ==
    \A h \in 1..Len(requests) :
        (requests[h].thread = "done"
         /\ requests[h].net = "transport_failure")
            => /\ requests[h].instance \in demoted
               /\ requests[h].status = Failed

C13_HttpErrorCompletes ==
    [][/\ (SubmitRequest \/ RequestThreads)
            => UNCHANGED << instances_available, instances_disabled >>
       /\ \A h \in 1..Len(requests) :
             (/\ requests[h].net = "http_error"
              /\ requests[h].thread = "spawned"
              /\ requests'[h].thread = "done")
                => requests'[h].status = Complete]_vars

\* C14: the demote for the latest request, made with the position the
\* request's instance was selected at (the pointer less one), takes that
\* instance out of instances_available, whatever was added or removed since
C14_DemotesTheSelected ==
    [][(/\ requests # << >>
        /\ InAvailable(requests[Len(requests)].instance)
        /\ DisableHostRemove(instances_available_pointer - 1))
          => /\ caller'.pc = "disable_push"
             /\ caller'.host = requests[Len(requests)].instance]_vars

\* C15: in no state, each of which every other thread can observe, is an
\* instance that is being moved absent from both lists
C15_MoveIsAtomic ==
    /\ caller.pc \in {"disable_push", "enable_push"}
          => (InAvailable(caller.host) \/ InDisabled(caller.host))
    /\ \A t \in BagToSet(timers) :
          t.pc = "push" => (InAvailable(t.host) \/ InDisabled(t.host))

\* the list s without the entries equal to x
Without(s, x) == SelectSeq(s, LAMBDA e : e # x)

\* C16: a step of a failover thread of X leaves the entries of every other
\* instance in both lists as they are, in their order, and no step but its
\* own ends or changes a failover thread
C16_TimersIndependent ==
    [][\A t \in BagToSet(timers) :
          /\ (TimerRemove(t) \/ TimerPush(t))
                => /\ Without(instances_available', t.host)
                        = Without(instances_available, t.host)
                   /\ Without(instances_disabled', t.host)
                        = Without(instances_disabled, t.host)
          /\ CopiesIn(t, timers') < CopiesIn(t, timers)
                => (TimerRemove(t) \/ TimerPush(t))]_vars

\* a failover thread of X has woken up while another instance Y is in
\* instances_disabled with its own thread asleep
C16_Witness ==
    \E t \in BagToSet(timers) :
        /\ t.pc = "push"
        /\ \E y \in Instances \ {t.host} :
              /\ InDisabled(y)
              /\ Sleeping(y) # {}

\* C17: a change of the failover timeout changes no failover thread that
\* is armed; a thread that is armed sleeps for the timeout current at that
\* moment, and keeps it when it wakes up
C17_TimeoutFixedWhenArmed ==
    [][/\ failover_timeout' # failover_timeout => timers' = timers
       /\ \A t \in BagToSet(timers') :
             CopiesIn(t, timers') > CopiesIn(t, timers)
                => IF t.pc = "sleep"
                   THEN t.timeout = failover_timeout
                   ELSE CopiesIn(Timer(t.host, "sleep", t.timeout), timers')
                          < CopiesIn(Timer(t.host, "sleep", t.timeout),
                                     timers)]_vars

\* a thread armed before a change of the timeout sleeps next to a thread
\* armed after it
C17_Witness ==
    \E t, u \in BagToSet(timers) :
        /\ t.pc = "sleep" /\ u.pc = "sleep"
        /\ t.timeout # failover_timeout
        /\ u.timeout = failover_timeout

\* C18: when no failover thread is left and the caller is between two
\* calls, none of which panicked, the two lists together hold each instance
\* as often as it was added
C18_InstancesConserved ==
    (timers = EmptyBag /\ caller.pc = "idle")
        => \A i \in Instances :
              Count(i, instances_available) + Count(i, instances_disabled)
                  = added[i]

\* C11: the query of every Url built is the parameters the caller supplied,
\* in their order, followed by u = username and p = password, once each and
\* last, also when several Urls are built from the same list
C11_CredentialsLastOnce ==
    \A k \in 1..Len(urls) :
        urls[k].query
            = Some(serialize_owned(supplied
                                   \o << << "u", Username >>,
                                         << "p", Password >> >>))

\* thread t is blocked in lock() on a Mutex whose guard thread u holds
WaitsFor(t, u) ==
    /\ running[t] # << >>
    /\ Head(running[t]).op = "lock"
    /\ u \in held[Head(running[t]).mutex]

\* every thread of S waits for a thread of S
Deadlocked(S) == S # {} /\ \A t \in S : \E u \in S : WaitsFor(t, u)

\* C19: no set of threads waits in a circle for each other's Mutexes, and
\* the only lock taken with a guard alive is the pointer in get_host, by
\* the caller holding the available list
C19_NoDeadlock ==
    /\ \A S \in SUBSET Threads : ~Deadlocked(S)
    /\ \A t \in Threads, m \in Mutexes :
          (/\ t \in held[m]
           /\ running[t] # << >>
           /\ Head(running[t]).op = "lock")
              => (/\ t = Caller
                  /\ m = "available"
                  /\ Head(running[t]).mutex = "pointer")

\* the caller holds the available list and the pointer in get_host while a
\* failover thread waits for the available list and another one holds the
\* disabled list
C19_Witness ==
    /\ held["available"] = {Caller}
    /\ held["pointer"] = {Caller}
    /\ \E t, u \in TimerThreads :
          /\ WaitsFor(t, Caller)
          /\ held["disabled"] = {u}

====
